---- MODULE Spec2Model ----
(***************************************************************************)
(* Model of the gdal-geotransform crate (src/src/lib.rs): GeoTransformer,  *)
(* built from a six-element GDAL geotransform, mapping world coordinates   *)
(* to pixels and back, and deriving the bounding rectangle of a raster.    *)
(*                                                                         *)
(* The crate computes in f64 and returns usize pixel indices.  Both are    *)
(* modelled with their rounding behaviour, at a reduced width: a float is  *)
(* a binary floating-point number with MantBits significant bits and       *)
(* round-to-nearest-even, held as an integer count of 2^-FracBits; usize   *)
(* is an unsigned integer of UsizeBits bits.                               *)
(***************************************************************************)
EXTENDS Integers, Sequences, FiniteSets, TLC

VARIABLES
    gt,                \* the GeoTransform handed to try_from
    state,             \* "new", "built" (Ok) or "failed" (Err)
    geotransform,      \* GeoTransformer.geotransform
    inv_geotransform,  \* GeoTransformer.inv_geotransform
    op,                \* the last method called on the GeoTransformer
    src,               \* where the argument of that call came from
    pixel,             \* the pixel (or size) argument, or the one `coordinate` was made from
    coordinate,        \* the coordinate argument of coordinate_to_pixel
    ret_pixel,         \* what coordinate_to_pixel returned
    ret_coordinate,    \* what pixel_to_coordinate returned
    ret_rect           \* what bounds_from_size returned

vars == <<gt, state, geotransform, inv_geotransform, op, src, pixel, coordinate,
          ret_pixel, ret_coordinate, ret_rect>>

----------------------------------------------------------------------------
(* Widths of the number formats. *)

\* significant bits of a float (f64 has 53)
MantBits == 4
\* the smallest positive float is 2^-FracBits
FracBits == 6
\* bits of usize (64 on the usual targets)
UsizeBits == 5
\* pixels and sizes handed to the methods range over 0..MaxPix
MaxPix == 3

RECURSIVE Pow2(_)
Pow2(n) == IF n = 0 THEN 1 ELSE 2 * Pow2(n - 1)

\* 1.0 as a count of 2^-FracBits
Unit == Pow2(FracBits)

\* usize::MAX
UsizeMax == Pow2(UsizeBits) - 1

Abs(x) == IF x < 0 THEN -x ELSE x

Sgn(x) == IF x < 0 THEN -1 ELSE 1

----------------------------------------------------------------------------
(* f64 arithmetic: every operation returns the float nearest to the exact  *)
(* result, ties to the even mantissa.  Numbers below 2^(MantBits -         *)
(* FracBits) are spaced 2^-FracBits apart (gradual underflow); the         *)
(* exponent has no upper limit, the inputs being finite and far from       *)
(* overflow, so no infinity or NaN arises.                                 *)

\* the integer nearest to A / B, ties to even (A >= 0, B > 0)
RoundHalfEven(A, B) ==
    LET q == A \div B
        r == A % B
    IN  IF 2 * r < B THEN q
        ELSE IF 2 * r > B THEN q + 1
        ELSE IF q % 2 = 0 THEN q ELSE q + 1

\* the spacing S (a power of two, in counts) of the floats around A / D
RECURSIVE Ulp(_, _, _)
Ulp(A, D, S) == IF A < Pow2(MantBits) * D * S THEN S ELSE Ulp(A, D, 2 * S)

\* the float nearest to the rational N / D (D > 0)
Round(N, D) ==
    LET A == Abs(N)
        S == Ulp(A, D, 1)
    IN  Sgn(N) * RoundHalfEven(A, D * S) * S

\* x + y
FAdd(x, y) == Round(x + y, 1)

\* x * y
FMul(x, y) == Round(x * y, Unit)

\* x / y (y /= 0)
FDiv(x, y) == Round(Sgn(y) * x * Unit, Abs(y))

\* x.floor()
f64_floor(x) == (x \div Unit) * Unit

\* x as usize: Rust's float-to-integer cast truncates toward zero and
\* saturates, a negative x to 0 and an x above usize::MAX to usize::MAX
as_usize(x) ==
    IF x < 0 THEN 0
    ELSE IF x \div Unit > UsizeMax THEN UsizeMax
    ELSE x \div Unit

\* n as f64: the float nearest to the integer n
as_f64(n) == Round(n * Unit, 1)

----------------------------------------------------------------------------
(* The crate.  A GeoTransform [a, b, c, d, e, f] is a sequence of six      *)
(* floats; Rust's gt[i] is g[i + 1] here.  A Coordinate is <<x, y>>, a     *)
(* pixel or a size <<col, row>>, a Rect [min |-> <<x, y>>, max |-> <<x, y>>]. *)

\* GeoTransform::default()
DefaultGeoTransform == <<0, 0, 0, 0, 0, 0>>

\* gdal_sys::GDALInvGeoTransform(gt_in, gt_out), a routine of the GDAL
\* library: the inverse by the closed form det = b*f - c*e, b' = f/det,
\* c' = -c/det, e' = -e/det, f' = b/det, a' = -(b'*a + c'*d),
\* d' = -(e'*a + f'*d); res = 0 and gt_out untouched when det = 0
GDALInvGeoTransform(gt_in) ==
    LET a == gt_in[1]  b == gt_in[2]  c == gt_in[3]
        d == gt_in[4]  e == gt_in[5]  f == gt_in[6]
        det == FAdd(FMul(b, f), -FMul(c, e))
    IN  IF det = 0
        THEN [res |-> 0, gt_out |-> DefaultGeoTransform]
        ELSE LET b1 == FDiv(f, det)
                 c1 == FDiv(-c, det)
                 e1 == FDiv(-e, det)
                 f1 == FDiv(b, det)
                 a1 == -FAdd(FMul(b1, a), FMul(c1, d))
                 d1 == -FAdd(FMul(e1, a), FMul(f1, d))
             IN  [res |-> 1, gt_out |-> <<a1, b1, c1, d1, e1, f1>>]

\* faulty variant: the corners are taken as given, without ordering them
rect_from_coordinates_unordered(c1, c2) == [min |-> c1, max |-> c2]

rect_from_coordinates(c1, c2) ==
    [min |-> <<IF c1[1] > c2[1] THEN c2[1] ELSE c1[1],
               IF c1[2] > c2[2] THEN c2[2] ELSE c1[2]>>,
     max |-> <<IF c1[1] < c2[1] THEN c2[1] ELSE c1[1],
               IF c1[2] < c2[2] THEN c2[2] ELSE c1[2]>>]

\* faulty variant: column and row come out exchanged
coordinate_to_pixel_swapped(inv, c) ==
    <<as_usize(f64_floor(FAdd(FAdd(inv[4], FMul(inv[5], c[1])), FMul(inv[6], c[2])))),
      as_usize(f64_floor(FAdd(FAdd(inv[1], FMul(inv[2], c[1])), FMul(inv[3], c[2]))))>>

coordinate_to_pixel(inv, c) ==
    <<as_usize(f64_floor(FAdd(FAdd(inv[1], FMul(inv[2], c[1])), FMul(inv[3], c[2])))),
      as_usize(f64_floor(FAdd(FAdd(inv[4], FMul(inv[5], c[1])), FMul(inv[6], c[2]))))>>

\* faulty variant: the centre of the pixel cell instead of its upper-left corner
pixel_to_coordinate_center(g, p) ==
    LET col == FAdd(as_f64(p[1]), Unit \div 2)
        row == FAdd(as_f64(p[2]), Unit \div 2)
    IN  <<FAdd(FAdd(g[1], FMul(g[2], col)), FMul(g[3], row)),
          FAdd(FAdd(g[4], FMul(g[5], col)), FMul(g[6], row))>>

pixel_to_coordinate(g, p) ==
    <<FAdd(FAdd(g[1], FMul(g[2], as_f64(p[1]))), FMul(g[3], as_f64(p[2]))),
      FAdd(FAdd(g[4], FMul(g[5], as_f64(p[1]))), FMul(g[6], as_f64(p[2])))>>

\* faulty variant: width and height exchanged
bounds_from_size_swapped(g, size) ==
    LET c1 == pixel_to_coordinate(g, <<0, 0>>)
        c2 == pixel_to_coordinate(g, <<size[2], size[1]>>)
    IN  rect_from_coordinates(c1, c2)

bounds_from_size(g, size) ==
    LET c1 == pixel_to_coordinate(g, <<0, 0>>)
        c2 == pixel_to_coordinate(g, size)
    IN  rect_from_coordinates(c1, c2)

\* faulty variant: the test of res is inverted
try_from_inverted(g) ==
    LET r == GDALInvGeoTransform(g)
    IN  IF r.res /= 0
        THEN [ok |-> FALSE, geotransform |-> DefaultGeoTransform,
              inv_geotransform |-> DefaultGeoTransform]
        ELSE [ok |-> TRUE, geotransform |-> g, inv_geotransform |-> r.gt_out]

\* faulty variant: the inverse is never stored
try_from_no_inverse(g) ==
    LET r == GDALInvGeoTransform(g)
    IN  IF r.res = 0
        THEN [ok |-> FALSE, geotransform |-> DefaultGeoTransform,
              inv_geotransform |-> DefaultGeoTransform]
        ELSE [ok |-> TRUE, geotransform |-> g, inv_geotransform |-> DefaultGeoTransform]

\* TryFrom<GeoTransform> for GeoTransformer: Err, or Ok with both fields
try_from(g) ==
    LET r == GDALInvGeoTransform(g)
    IN  IF r.res = 0
        THEN [ok |-> FALSE, geotransform |-> DefaultGeoTransform,
              inv_geotransform |-> DefaultGeoTransform]
        ELSE [ok |-> TRUE, geotransform |-> g, inv_geotransform |-> r.gt_out]

----------------------------------------------------------------------------
(* Inputs. *)

\* the geotransforms handed to try_from: a grid of axis-aligned, flipped,
\* sheared and singular ones, and one whose determinant 7*7 - 6*8 = 1 is
\* lost to rounding
GeoTransforms ==
    { <<ad[1], b, c, ad[2], e, f>> :
        ad \in {<<0, 0>>, <<3 * Unit, 5 * Unit>>},
        b \in {0, Unit, -2 * Unit, 7 * Unit},
        c \in {0, 2 * Unit},
        e \in {0, 2 * Unit},
        f \in {0, -Unit, 4 * Unit, Unit \div 2, -7 * Unit} }
    \cup { <<0, 7 * Unit, 6 * Unit, 0, 8 * Unit, 7 * Unit>> }

Pixels == (0 .. MaxPix) \X (0 .. MaxPix)

Coordinates ==
    LET vs == {-6 * Unit, -(Unit \div 2), 5 * (Unit \div 2), 20 * Unit}
    IN  vs \X vs

NoRect == [min |-> <<0, 0>>, max |-> <<0, 0>>]

----------------------------------------------------------------------------
(* Behaviour: one GeoTransformer is built, then its methods are called in  *)
(* any order; coordinate_to_pixel is called with a coordinate of the       *)
(* caller's or with one a previous call returned.                          *)

Init ==
    /\ gt \in GeoTransforms
    /\ state = "new"
    /\ geotransform = DefaultGeoTransform
    /\ inv_geotransform = DefaultGeoTransform
    /\ op = "none"
    /\ src = "none"
    /\ pixel = <<0, 0>>
    /\ coordinate = <<0, 0>>
    /\ ret_pixel = <<0, 0>>
    /\ ret_coordinate = <<0, 0>>
    /\ ret_rect = NoRect

CallTryFrom ==
    /\ state = "new"
    /\ LET r == try_from(gt)
       IN  /\ state' = IF r.ok THEN "built" ELSE "failed"
           /\ geotransform' = r.geotransform
           /\ inv_geotransform' = r.inv_geotransform
    /\ UNCHANGED <<gt, op, src, pixel, coordinate, ret_pixel, ret_coordinate, ret_rect>>

CallPixelToCoordinate ==
    /\ state = "built"
    /\ \E p \in Pixels :
          /\ pixel' = p
          /\ ret_coordinate' = pixel_to_coordinate(geotransform, p)
    /\ op' = "pixel_to_coordinate"
    /\ src' = "input"
    /\ coordinate' = <<0, 0>>
    /\ ret_pixel' = <<0, 0>>
    /\ ret_rect' = NoRect
    /\ UNCHANGED <<gt, state, geotransform, inv_geotransform>>

CallBoundsFromSize ==
    /\ state = "built"
    /\ \E size \in Pixels :
          /\ pixel' = size
          /\ ret_rect' = bounds_from_size(geotransform, size)
    /\ op' = "bounds_from_size"
    /\ src' = "input"
    /\ coordinate' = <<0, 0>>
    /\ ret_pixel' = <<0, 0>>
    /\ ret_coordinate' = <<0, 0>>
    /\ UNCHANGED <<gt, state, geotransform, inv_geotransform>>

\* coordinate_to_pixel(c), c taken from `from`
ToPixel(c, from) ==
    /\ coordinate' = c
    /\ ret_pixel' = coordinate_to_pixel(inv_geotransform, c)
    /\ op' = "coordinate_to_pixel"
    /\ src' = from
    /\ UNCHANGED <<gt, state, geotransform, inv_geotransform>>

CallCoordinateToPixel ==
    /\ state = "built"
    /\ \/ /\ \E c \in Coordinates : ToPixel(c, "input")
          /\ pixel' = <<0, 0>>
          /\ ret_coordinate' = <<0, 0>>
          /\ ret_rect' = NoRect
       \/ /\ op = "pixel_to_coordinate"
          /\ ToPixel(ret_coordinate, "pixel_to_coordinate")
          /\ UNCHANGED <<pixel, ret_coordinate, ret_rect>>
       \/ /\ op = "bounds_from_size"
          /\ ToPixel(ret_rect.min, "bounds.min")
          /\ UNCHANGED <<pixel, ret_coordinate, ret_rect>>
       \/ /\ op = "bounds_from_size"
          /\ ToPixel(ret_rect.max, "bounds.max")
          /\ UNCHANGED <<pixel, ret_coordinate, ret_rect>>

Next ==
    \/ CallTryFrom
    \/ CallPixelToCoordinate
    \/ CallBoundsFromSize
    \/ CallCoordinateToPixel

Spec == Init /\ [][Next]_vars

----------------------------------------------------------------------------
(* What the properties are stated with: the affine formulas written out on *)
(* the geotransform as given, the exact (real-number) determinant and      *)
(* composition, and whether an evaluation in floats was free of rounding.  *)

\* floor of a float, as an integer
Floor(v) == v \div Unit

MinOf(x, y) == IF x <= y THEN x ELSE y

MaxOf(x, y) == IF x >= y THEN x ELSE y

\* k0 + k1 * x + k2 * y, evaluated in floats from left to right
Affine(k0, k1, k2, x, y) == FAdd(FAdd(k0, FMul(k1, x)), FMul(k2, y))

WorldX(g, p) == Affine(g[1], g[2], g[3], as_f64(p[1]), as_f64(p[2]))

WorldY(g, p) == Affine(g[4], g[5], g[6], as_f64(p[1]), as_f64(p[2]))

\* fx and fy of a world point under an inverse geotransform
ImageX(inv, c) == Affine(inv[1], inv[2], inv[3], c[1], c[2])

ImageY(inv, c) == Affine(inv[4], inv[5], inv[6], c[1], c[2])

\* b*f - c*e as a real number (in units of 2^-(2*FracBits))
ExactDet(g) == g[2] * g[6] - g[3] * g[5]

\* b*f - c*e as evaluated in floats
ComputedDet(g) == FAdd(FMul(g[2], g[6]), -FMul(g[3], g[5]))

\* the closed-form inverse, evaluated in floats
ClosedFormInverse(g) ==
    LET det == ComputedDet(g)
        b1 == FDiv(g[6], det)
        c1 == FDiv(-g[3], det)
        e1 == FDiv(-g[5], det)
        f1 == FDiv(g[2], det)
    IN  <<-FAdd(FMul(b1, g[1]), FMul(c1, g[4])), b1, c1,
          -FAdd(FMul(e1, g[1]), FMul(f1, g[4])), e1, f1>>

ExactAdd(x, y) == FAdd(x, y) = x + y

ExactMul(x, y) == FMul(x, y) * Unit = x * y

ExactDiv(x, y) == FDiv(x, y) * y = x * Unit

ExactAffine(k0, k1, k2, x, y) ==
    /\ ExactMul(k1, x)
    /\ ExactMul(k2, y)
    /\ ExactAdd(k0, FMul(k1, x))
    /\ ExactAdd(FAdd(k0, FMul(k1, x)), FMul(k2, y))

\* no operation of the inversion of g rounds
ExactInverse(g) ==
    LET det == ComputedDet(g)
        inv == ClosedFormInverse(g)
    IN  /\ ExactMul(g[2], g[6])
        /\ ExactMul(g[3], g[5])
        /\ ExactAdd(FMul(g[2], g[6]), -FMul(g[3], g[5]))
        /\ det /= 0
        /\ ExactDiv(g[6], det)
        /\ ExactDiv(-g[3], det)
        /\ ExactDiv(-g[5], det)
        /\ ExactDiv(g[2], det)
        /\ ExactMul(inv[2], g[1])
        /\ ExactMul(inv[3], g[4])
        /\ ExactAdd(FMul(inv[2], g[1]), FMul(inv[3], g[4]))
        /\ ExactMul(inv[5], g[1])
        /\ ExactMul(inv[6], g[4])
        /\ ExactAdd(FMul(inv[5], g[1]), FMul(inv[6], g[4]))

\* no operation of pixel_to_coordinate(p) rounds
ExactWorld(g, p) ==
    /\ as_f64(p[1]) = p[1] * Unit
    /\ as_f64(p[2]) = p[2] * Unit
    /\ ExactAffine(g[1], g[2], g[3], as_f64(p[1]), as_f64(p[2]))
    /\ ExactAffine(g[4], g[5], g[6], as_f64(p[1]), as_f64(p[2]))

\* no operation of coordinate_to_pixel(c) rounds
ExactImage(inv, c) ==
    /\ ExactAffine(inv[1], inv[2], inv[3], c[1], c[2])
    /\ ExactAffine(inv[4], inv[5], inv[6], c[1], c[2])

\* inv after g is the identity affine, as real numbers
IsIdentityComposition(g, inv) ==
    /\ inv[2] * g[2] + inv[3] * g[5] = Unit * Unit
    /\ inv[2] * g[3] + inv[3] * g[6] = 0
    /\ inv[5] * g[2] + inv[6] * g[5] = 0
    /\ inv[5] * g[3] + inv[6] * g[6] = Unit * Unit
    /\ inv[1] * Unit + inv[2] * g[1] + inv[3] * g[4] = 0
    /\ inv[4] * Unit + inv[5] * g[1] + inv[6] * g[4] = 0

Sheared(g) == g[3] /= 0 /\ g[5] /= 0

\* no rotation or shear, b > 0 and f < 0: a north-up raster
NorthUp(g) == g[3] = 0 /\ g[5] = 0 /\ g[2] > 0 /\ g[6] < 0

Inside(r, c) ==
    /\ r.min[1] <= c[1] /\ c[1] <= r.max[1]
    /\ r.min[2] <= c[2] /\ c[2] <= r.max[2]

RoundTrip == op = "coordinate_to_pixel" /\ src = "pixel_to_coordinate"

----------------------------------------------------------------------------
(* Properties. *)

C2_ToPixelIsFloor ==
    LET fx == ImageX(inv_geotransform, coordinate)
        fy == ImageY(inv_geotransform, coordinate)
    IN  (op = "coordinate_to_pixel" /\ fx >= 0 /\ fy >= 0)
            => ret_pixel = <<Floor(fx), Floor(fy)>>

\* C2, amended: for fx, fy >= 0 with floor(fx), floor(fy) <= usize::MAX
\* coordinate_to_pixel returns exactly (floor(fx), floor(fy)), never clipped
\* to a raster size.
C2_ToPixelIsFloorWithinUsize ==
    LET fx == ImageX(inv_geotransform, coordinate)
        fy == ImageY(inv_geotransform, coordinate)
    IN  (/\ op = "coordinate_to_pixel"
         /\ fx >= 0 /\ fy >= 0
         /\ Floor(fx) <= UsizeMax /\ Floor(fy) <= UsizeMax)
            => ret_pixel = <<Floor(fx), Floor(fy)>>

\* C2 witness: a caller's world point with non-negative images was mapped to
\* a pixel beyond every raster size in use.
C2_BeyondRaster ==
    /\ op = "coordinate_to_pixel"
    /\ src = "input"
    /\ ImageX(inv_geotransform, coordinate) >= 0
    /\ ImageY(inv_geotransform, coordinate) >= 0
    /\ ret_pixel[1] > MaxPix
    /\ ret_pixel[1] < UsizeMax
    /\ ret_pixel[2] < UsizeMax

\* C3: pixel_to_coordinate(col, row) is (a + b*col + c*row, d + e*col + f*row)
\* on the geotransform given to try_from, with no half-pixel offset; the
\* pixel (0, 0) maps to (a, d) exactly.
C3_ToWorldFormula ==
    op = "pixel_to_coordinate" =>
        /\ ret_coordinate = <<WorldX(gt, pixel), WorldY(gt, pixel)>>
        /\ pixel = <<0, 0>> => ret_coordinate = <<gt[1], gt[4]>>

\* C3 witness: a pixel off the origin was mapped under a sheared geotransform
\* with a non-zero origin.
C3_ShearedPixelMapped ==
    /\ op = "pixel_to_coordinate"
    /\ pixel[1] > 0 /\ pixel[2] > 0
    /\ Sheared(gt)
    /\ gt[1] /= 0

\* C4, as stated: coordinate_to_pixel(pixel_to_coordinate(c, r)) = (c, r) for
\* every GeoTransformer and every pixel.
C4_RoundTrip ==
    RoundTrip => ret_pixel = pixel

\* C4, amended: coordinate_to_pixel(pixel_to_coordinate(c, r)) = (c, r)
\* whenever no operation of the inversion and of the two mappings rounds.
C4_RoundTripWhenExact ==
    (/\ RoundTrip
     /\ ExactInverse(gt)
     /\ ExactWorld(gt, pixel)
     /\ ExactImage(inv_geotransform, coordinate))
        => ret_pixel = pixel

\* C4 witness: a pixel off the origin made the round trip under a sheared
\* geotransform without any rounding.
C4_ShearedRoundTrip ==
    /\ RoundTrip
    /\ ExactInverse(gt)
    /\ ExactWorld(gt, pixel)
    /\ ExactImage(inv_geotransform, coordinate)
    /\ Sheared(gt)
    /\ gt[1] /= 0
    /\ pixel[1] > 0 /\ pixel[2] > 0

\* C5, as stated: the stored inverse composed with the stored forward
\* geotransform is the identity affine.
C5_CompositionIsIdentity ==
    state = "built" => IsIdentityComposition(geotransform, inv_geotransform)

\* C5, amended: the stored geotransform is the one given, the stored inverse
\* is its closed-form inverse evaluated in f64, and their composition is the
\* identity affine whenever no operation of the inversion rounds.
C5_ClosedFormInverseStored ==
    state = "built" =>
        /\ geotransform = gt
        /\ inv_geotransform = ClosedFormInverse(gt)
        /\ ExactInverse(gt) => IsIdentityComposition(geotransform, inv_geotransform)

\* C5 witness: a sheared geotransform with a non-zero origin was inverted
\* without rounding.
C5_ShearedInvertedExactly ==
    /\ state = "built"
    /\ ExactInverse(gt)
    /\ Sheared(gt)
    /\ gt[1] /= 0

C7_RectNormalized ==
    op = "bounds_from_size" =>
        /\ ret_rect.min[1] <= ret_rect.max[1]
        /\ ret_rect.min[2] <= ret_rect.max[2]

\* C7 witness: bounds were taken under a sheared geotransform whose far
\* corner lies below and left of the origin corner.
C7_FarCornerIsMin ==
    /\ op = "bounds_from_size"
    /\ Sheared(gt)
    /\ WorldX(gt, pixel) < gt[1]
    /\ WorldY(gt, pixel) < gt[4]

\* C8: bounds_from_size(w, h) is the component-wise min and max of
\* pixel_to_coordinate(0, 0) = (a, d) and pixel_to_coordinate(w, h); for the
\* size (0, 0) it is the single point (a, d).
C8_BoundsOfTwoCorners ==
    LET x2 == WorldX(gt, pixel)
        y2 == WorldY(gt, pixel)
    IN  op = "bounds_from_size" =>
            /\ ret_rect = [min |-> <<MinOf(gt[1], x2), MinOf(gt[4], y2)>>,
                           max |-> <<MaxOf(gt[1], x2), MaxOf(gt[4], y2)>>]
            /\ pixel = <<0, 0>> =>
                   ret_rect = [min |-> <<gt[1], gt[4]>>, max |-> <<gt[1], gt[4]>>]

\* C8 witness: bounds whose min takes x from the origin corner and y from
\* the far corner, for a raster wider than high.
C8_MixedCorners ==
    /\ op = "bounds_from_size"
    /\ pixel[1] > pixel[2] /\ pixel[2] > 0
    /\ gt[1] /= 0
    /\ ret_rect.min = <<gt[1], WorldY(gt, pixel)>>
    /\ ret_rect.max = <<WorldX(gt, pixel), gt[4]>>
    /\ ret_rect.min[1] < ret_rect.max[1]
    /\ ret_rect.min[2] < ret_rect.max[2]

\* C9, as stated: a negative floor(fx) or floor(fy) comes back as
\* floor(v) mod 2^w, never as 0.
C9_NegativeWraps ==
    LET fx == ImageX(inv_geotransform, coordinate)
        fy == ImageY(inv_geotransform, coordinate)
    IN  op = "coordinate_to_pixel" =>
            /\ Floor(fx) < 0 =>
                   ret_pixel[1] = Floor(fx) % Pow2(UsizeBits) /\ ret_pixel[1] /= 0
            /\ Floor(fy) < 0 =>
                   ret_pixel[2] = Floor(fy) % Pow2(UsizeBits) /\ ret_pixel[2] /= 0

\* C10: without rotation or shear (c = e = 0) the rectangle of
\* bounds_from_size(w, h) contains pixel_to_coordinate(col, row) for every
\* 0 <= col <= w and 0 <= row <= h.
C10_BoundsContainAllCorners ==
    (op = "bounds_from_size" /\ gt[3] = 0 /\ gt[5] = 0) =>
        \A col \in 0 .. pixel[1], row \in 0 .. pixel[2] :
            Inside(ret_rect, <<WorldX(gt, <<col, row>>), WorldY(gt, <<col, row>>)>>)

\* C10 witness: bounds of a raster at least 2 x 3 under an axis-aligned
\* geotransform flipped in x.
C10_FlippedAxisAligned ==
    /\ op = "bounds_from_size"
    /\ gt[3] = 0 /\ gt[5] = 0
    /\ gt[2] < 0 /\ gt[6] < 0
    /\ pixel[1] >= 2 /\ pixel[2] > pixel[1]

====
